---- MODULE Spec2Model ----
(***************************************************************************)
(* Client-side document-to-text pipeline of the transcript application:    *)
(* the upload orchestration of app/page.tsx (handleFileUpload), the PDF    *)
(* helpers of utils/pdf-processor, the recognition adapter of              *)
(* utils/ocr-client, the server action of app/actions.ts and the           *)
(* transcript formatter of utils/format-transcript.ts.                     *)
(*                                                                         *)
(* Strings are sequences of one-character strings.  Every step of the      *)
(* orchestration runs from the return of one awaited call to the start of  *)
(* the next awaited call, which is the unit JavaScript executes without    *)
(* interruption.                                                           *)
(***************************************************************************)
EXTENDS Integers, Sequences, FiniteSets, TLC

(***************************************************************************)
(* Bounds and program constants                                            *)
(***************************************************************************)

\* largest page count of an uploaded PDF
MaxPages == 4

\* convertPdfToImages(file, 3, ...) and `numPages > 3`
PageCap == 3

\* `extractedText.trim().length > 10`
MinExtractedLen == 10

(***************************************************************************)
(* Characters and strings                                                  *)
(***************************************************************************)

Lower == {"a", "b", "c", "d", "e", "f", "g", "h", "i", "j", "k", "l", "m",
          "n", "o", "p", "q", "r", "s", "t", "u", "v", "w", "x", "y", "z"}

Upper == {"A", "B", "C", "D", "E", "F", "G", "H", "I", "J", "K", "L", "M",
          "N", "O", "P", "Q", "R", "S", "T", "U", "V", "W", "X", "Y", "Z"}

\* the characters String.prototype.trim removes (those the model uses)
WhiteSpace == {" ", "\t", "\n", "\r"}

Digits == <<"0", "1", "2", "3", "4", "5", "6", "7", "8", "9">>

\* the decimal digit of a page number (page numbers stay below 10)
Digit(n) == Digits[n + 1]

\* the one element of a singleton; {F(x) : x \in {e}} applies F to the value
\* of e
TheOne(S) == CHOOSE x \in S : TRUE

RECURSIVE TrimStart(_)
TrimStart(s) ==
  IF s = <<>> THEN s
  ELSE IF Head(s) \in WhiteSpace THEN TrimStart(Tail(s)) ELSE s

RECURSIVE TrimEnd(_)
TrimEnd(s) ==
  IF s = <<>> THEN s
  ELSE IF s[Len(s)] \in WhiteSpace THEN TrimEnd(SubSeq(s, 1, Len(s) - 1)) ELSE s

\* String.prototype.trim
Trim(s) == TheOne({TrimEnd(TrimStart(x)) : x \in {s}})

(***************************************************************************)
(* utils/format-transcript.ts                                              *)
(***************************************************************************)

\* The concatenation of the pieces frag[lo], ..., frag[hi].  Each global
\* replace below is given by the piece every character of the subject turns
\* into.
RECURSIVE Concat(_, _, _)
Concat(frag, lo, hi) ==
  IF lo > hi THEN <<>>
  ELSE IF lo = hi THEN frag[lo]
  ELSE LET mid == (lo + hi) \div 2 IN Concat(frag, lo, mid) \o Concat(frag, mid + 1, hi)

\* .replace(/\r\n/g, "\n")
NormalizeLineEndings(s) ==
  Concat([i \in 1..Len(s) |->
            IF s[i] = "\r" /\ i < Len(s) /\ s[i + 1] = "\n" THEN <<>> ELSE <<s[i]>>],
         1, Len(s))

\* .replace(/\t/g, "    ")
ReplaceTabs(s) ==
  Concat([i \in 1..Len(s) |-> IF s[i] = "\t" THEN <<" ", " ", " ", " ">> ELSE <<s[i]>>],
         1, Len(s))

\* .replace(/c{3,}/g, cc): of a maximal run of three or more c the first
\* two stay
CollapseRuns(s, c) ==
  Concat([i \in 1..Len(s) |->
            IF s[i] = c /\ i >= 3 /\ s[i - 1] = c /\ s[i - 2] = c THEN <<>> ELSE <<s[i]>>],
         1, Len(s))

\* /([a-z])p([X])/ with X the class `second` matches the three characters
\* from index i on
PunctAt(s, p, second, i) ==
  /\ i >= 1
  /\ i + 2 <= Len(s)
  /\ s[i] \in Lower
  /\ s[i + 1] = p
  /\ s[i + 2] \in second

\* the global replace takes the match at i: a match consumes its three
\* characters, so a match that starts on the last character of a taken match
\* is not taken
RECURSIVE PunctTaken(_, _, _, _)
PunctTaken(s, p, second, i) ==
  PunctAt(s, p, second, i) /\ ~PunctTaken(s, p, second, i - 2)

\* .replace(/([a-z])p([X])/g, "$1p $2")
SpaceAfter(s, p, second) ==
  Concat([i \in 1..Len(s) |->
            IF PunctTaken(s, p, second, i - 1) THEN <<s[i], " ">> ELSE <<s[i]>>],
         1, Len(s))

\* .replace(/([.!?])\n(?=[A-Z])/g, "$1\n\n")
ParagraphBreaks(s) ==
  Concat([i \in 1..Len(s) |->
            IF /\ s[i] = "\n"
               /\ i >= 2
               /\ s[i - 1] \in {".", "!", "?"}
               /\ i < Len(s)
               /\ s[i + 1] \in Upper
            THEN <<"\n", "\n">>
            ELSE <<s[i]>>],
         1, Len(s))

\* only white space lies between the start of the line of s[i] and s[i]
RECURSIVE LeadsLine(_, _)
LeadsLine(s, i) ==
  /\ s[i] \in WhiteSpace \ {"\n"}
  /\ (i = 1 \/ s[i - 1] = "\n" \/ LeadsLine(s, i - 1))

\* only white space lies between s[i] and the end of its line
RECURSIVE EndsLine(_, _)
EndsLine(s, i) ==
  /\ s[i] \in WhiteSpace \ {"\n"}
  /\ (i = Len(s) \/ s[i + 1] = "\n" \/ EndsLine(s, i + 1))

\* .split("\n").map((line) => line.trim()).join("\n")
TrimLines(s) ==
  Concat([i \in 1..Len(s) |->
            IF LeadsLine(s, i) \/ EndsLine(s, i) THEN <<>> ELSE <<s[i]>>],
         1, Len(s))

formatTranscript(text) ==
  IF text = <<>> \/ Trim(text) = <<>> THEN <<>>
  ELSE LET endings == TheOne({NormalizeLineEndings(x) : x \in {text}})
           tabs == TheOne({ReplaceTabs(x) : x \in {endings}})
           spaces == TheOne({CollapseRuns(x, " ") : x \in {tabs}})
           step1 == TheOne({CollapseRuns(x, "\n") : x \in {spaces}})
           periods == TheOne({SpaceAfter(x, ".", Upper) : x \in {step1}})
           commas == TheOne({SpaceAfter(x, ",", Lower) : x \in {periods}})
           step2 == TheOne({SpaceAfter(x, ":", Lower) : x \in {commas}})
           step3 == TheOne({ParagraphBreaks(x) : x \in {step2}})
           step4 == TheOne({TrimLines(x) : x \in {step3}})
       IN  TheOne({Trim(x) : x \in {step4}})

(***************************************************************************)
(* Files and the outcomes of the external engines                          *)
(***************************************************************************)

PdfType == "application/pdf"

\* media types of uploaded files: a PDF, an image, and a file that is neither
FileTypes == {PdfType, "image/png", "text/plain"}

\* An uploaded File: its media type and (for a PDF) its page count.  `page` is
\* 0 for an uploaded file and p for the raster of page p that
\* convertPdfPageToImage returns.
Files ==
  {[type |-> PdfType, numPages |-> n, page |-> 0] : n \in 1..MaxPages}
  \cup {[type |-> t, numPages |-> 1, page |-> 0] : t \in FileTypes \ {PdfType}}

\* new File([blob], "page.png", { type: "image/png" })
PageImage(p) == [type |-> "image/png", numPages |-> 1, page |-> p]

\* what page.getTextContent() yields for one page: text items, no items, or
\* an exception
TextLayerOutcomes == {"items", "none", "throw"}

\* the `str` fields of textContent.items for page p: ten characters once
\* trimmed and joined
TextItems(p, o) ==
  IF o = "items" THEN <<<<" ", "p", "g", Digit(p)>>, <<"a", "b", ".", "C", "d", "e", " ">>>>
  ELSE <<>>

\* what an awaited call that can fail does
CallOutcomes == {"ok", "throw"}

\* what Tesseract.recognize does with one image: text, nothing legible, or
\* an exception (which also stands for a failure of the preprocessing that
\* precedes it in the same try block)
RecognizeOutcomes == {"text", "blank", "throw"}

\* result.data.text of the engine for the image `img`
RecognizedText(img, o) ==
  IF o = "text" THEN <<"O", "c", "r", ",", "t", "e", "x", "t", " ">> \o <<Digit(img.page), "\n">>
  ELSE <<" ", "\n">>

(***************************************************************************)
(* utils/pdf-processor                                                     *)
(***************************************************************************)

\* items.map((item) => (item.str || "").trim()).join(" ")
RECURSIVE JoinTrimmed(_)
JoinTrimmed(items) ==
  IF items = <<>> THEN <<>>
  ELSE IF Len(items) = 1 THEN Trim(items[1])
  ELSE Trim(items[1]) \o <<" ">> \o JoinTrimmed(Tail(items))

\* the loop `for (let i = 1; i <= pdf.numPages; i++)` from page i on:
\* the text accumulated in fullText
RECURSIVE ExtractPages(_, _, _, _)
ExtractPages(numPages, pageOut, i, fullText) ==
  IF i > numPages THEN fullText
  ELSE IF pageOut[i] # "items"
       THEN ExtractPages(numPages, pageOut, i + 1, fullText)
       ELSE ExtractPages(numPages, pageOut, i + 1,
                         fullText \o JoinTrimmed(TextItems(i, pageOut[i])) \o <<"\n", "\n">>)

\* extractTextFromPdf(file): `lib` is window.pdfjsLib being present, `load`
\* the outcome of loadingTask.promise, pageOut[i] what page i yields.
\* `pages` are the page numbers handed to pdf.getPage.
extractTextFromPdf(file, lib, load, pageOut) ==
  IF ~lib \/ load = "throw"
  THEN [ok |-> FALSE, text |-> <<>>, pages |-> {}]
  ELSE [ok |-> TRUE,
        text |-> Trim(ExtractPages(file.numPages, pageOut, 1, <<>>)),
        pages |-> 1..file.numPages]

Min(a, b) == IF a <= b THEN a ELSE b

\* getPdfInfo(file): the page count of the document, or an exception when
\* the document cannot be opened
getPdfInfo(file, load) ==
  IF load = "throw" THEN [ok |-> FALSE, numPages |-> 0]
  ELSE [ok |-> TRUE, numPages |-> file.numPages]

\* the images pushed by the loop of convertPdfToImages from page i on
RECURSIVE ConvertedPages(_, _, _)
ConvertedPages(pagesToProcess, convOut, i) ==
  IF i > pagesToProcess THEN <<>>
  ELSE IF convOut[i] = "ok"
       THEN <<PageImage(i)>> \o ConvertedPages(pagesToProcess, convOut, i + 1)
       ELSE ConvertedPages(pagesToProcess, convOut, i + 1)

\* convertPdfToImages(file, maxPages): convOut[i] is the outcome of
\* convertPdfPageToImage(file, i)
convertPdfToImages(file, maxPages, convOut) ==
  LET pagesToProcess == Min(file.numPages, maxPages)
      imageFiles == ConvertedPages(pagesToProcess, convOut, 1)
  IN  IF imageFiles = <<>>
      THEN [ok |-> FALSE, images |-> <<>>, totalPages |-> file.numPages,
            truncated |-> FALSE, pages |-> 1..pagesToProcess]
      ELSE [ok |-> TRUE, images |-> imageFiles, totalPages |-> file.numPages,
            truncated |-> file.numPages > maxPages, pages |-> 1..pagesToProcess]

(***************************************************************************)
(* utils/ocr-client                                                        *)
(***************************************************************************)

\* `\n\n[Note: This document has ${totalPages} pages. Only the first 3 pages
\* were processed.]`
TruncationNote(totalPages) ==
  <<"\n", "\n", "[", "N", "o", "t", "e", ":", " ", "T", "h", "i", "s", " ",
    "d", "o", "c", "u", "m", "e", "n", "t", " ", "h", "a", "s", " ">>
  \o <<Digit(totalPages)>> \o
  <<" ", "p", "a", "g", "e", "s", ".", " ", "O", "n", "l", "y", " ", "t",
    "h", "e", " ", "f", "i", "r", "s", "t", " ", "3", " ", "p", "a", "g",
    "e", "s", " ", "w", "e", "r", "e", " ", "p", "r", "o", "c", "e", "s",
    "s", "e", "d", ".", "]">>

\* the loop over filesToProcess from index i on: the text accumulated in
\* fullText.  recOut[i] is what the engine does with the i-th image.
RECURSIVE RecognizeFiles(_, _, _, _)
RecognizeFiles(filesToProcess, recOut, i, fullText) ==
  IF i > Len(filesToProcess) THEN fullText
  ELSE LET text == RecognizedText(filesToProcess[i], recOut[i]) IN
       IF recOut[i] # "throw" /\ Trim(text) # <<>>
       THEN RecognizeFiles(filesToProcess, recOut, i + 1, fullText \o text \o <<"\n", "\n">>)
       ELSE RecognizeFiles(filesToProcess, recOut, i + 1, fullText)

\* Math.round(num / den * 100)
RoundPercent(num, den) == (200 * num + den) \div (2 * den)

\* The last ProgressEvent a call of performClientOCR hands to onProgress:
\* { stage: "complete", progress: 1 } once the loop over the files is done;
\* when no page of a PDF could be converted, the event convertPdfToImages
\* reported before the last page it tried, (pagesToProcess - 1) / pagesToProcess.
LastProgress(file, converted) ==
  IF converted
  THEN [stage |-> "complete", num |-> 1, den |-> 1, message |-> "OCR processing complete"]
  ELSE LET n == Min(file.numPages, PageCap) IN
       [stage |-> "pdf-conversion", num |-> n - 1, den |-> n,
        message |-> "Converting PDF to images (N%)..."]

\* performClientOCR(file, options, onProgress): convOut and recOut are the
\* outcomes of the page conversions and of the recognitions it awaits.
\* `pages` are the PDF pages it fetched, `options` the options it ran with,
\* `last` the last event given to onProgress, `recognized` what the engine
\* read on the images (the returned text without the note).
performClientOCR(file, options, convOut, recOut) ==
  LET result == convertPdfToImages(file, PageCap, convOut)
      isPdf == file.type = PdfType
      filesToProcess == IF isPdf THEN result.images ELSE <<file>>
      truncated == isPdf /\ result.truncated
      recognized == TheOne({RecognizeFiles(x, recOut, 1, <<>>) : x \in {filesToProcess}})
      fullText == TheOne({IF truncated THEN x \o TruncationNote(result.totalPages) ELSE x :
                            x \in {recognized}})
      pages == IF isPdf THEN result.pages ELSE {}
  IN  IF isPdf /\ ~result.ok
      THEN [ok |-> FALSE, text |-> <<>>, pages |-> pages, options |-> options,
            last |-> LastProgress(file, FALSE), recognized |-> <<>>]
      ELSE IF Trim(fullText) = <<>>
      THEN [ok |-> FALSE, text |-> <<>>, pages |-> pages, options |-> options,
            last |-> LastProgress(file, TRUE), recognized |-> <<>>]
      ELSE [ok |-> TRUE, text |-> Trim(fullText), pages |-> pages, options |-> options,
            last |-> LastProgress(file, TRUE), recognized |-> Trim(recognized)]

(***************************************************************************)
(* app/actions.ts                                                          *)
(***************************************************************************)

\* what the server action does: for a PDF it answers with empty text, for
\* any other file it runs performOCR on the server.  `call` is the outcome
\* of the remote call itself, `rec` of the server's engine.
ServerText == <<" ", "S", "e", "r", "v", "e", "r", ":", "t", "e", "x", "t", "\n">>

processDocument(file, call, rec) ==
  IF call = "throw" THEN [ok |-> FALSE, text |-> <<>>, method |-> "none"]
  ELSE IF file.type = PdfType THEN [ok |-> TRUE, text |-> <<>>, method |-> "extracted"]
  ELSE IF rec = "throw" THEN [ok |-> FALSE, text |-> <<>>, method |-> "none"]
  ELSE IF rec = "text" THEN [ok |-> TRUE, text |-> ServerText, method |-> "ocr"]
  ELSE [ok |-> TRUE, text |-> <<" ", "\n">>, method |-> "ocr"]

\* useState<OCROptions>({ ... }): the initial OCR options
DefaultOcrOptions ==
  [optimizeForHandwriting |-> FALSE, enhanceContrast |-> FALSE, language |-> "eng",
   quickMode |-> FALSE]

(***************************************************************************)
(* The outcomes the collaborators of one call can have                     *)
(***************************************************************************)

\* the outcomes of the page conversions performClientOCR(file) awaits
ConversionOutcomes(file) ==
  IF file.type = PdfType
  THEN [1..Min(file.numPages, PageCap) -> CallOutcomes]
  ELSE {<<>>}

\* the outcomes of the recognitions performClientOCR(file) awaits, one for
\* every image it has to process
RecognitionOutcomes(file, convOut) ==
  LET n == IF file.type = PdfType
           THEN Cardinality({i \in DOMAIN convOut : convOut[i] = "ok"})
           ELSE 1
  IN  [1..n -> RecognizeOutcomes]

(***************************************************************************)
(* app/page.tsx: the state of the Home component                           *)
(***************************************************************************)

VARIABLES
  transcript,        \* string | null; null and "" are both <<>> (every read is `!transcript` or `transcript || ""`)
  isProcessing,
  error,             \* string | null
  originalFile,
  currentPageFile,
  processingMethod,  \* "extracted" | "ocr" | null
  processingStatus,  \* the message, and whether the advisory text was appended to it
  pdfJsLoaded,
  documentTruncated,
  totalPages,
  currentPage,
  progressValue,
  pageTranscripts,   \* Map<number, string>
  ocrOptions,
  run,               \* the pending call of handleFileUpload: its position, its closure and its call log
  ocrCall,           \* one call of performClientOCR followed event by event (OcrCallSpec)
  nav,               \* the pending calls of handlePageChange and what they did (PageSpec)
  formatter,         \* formatTranscript applied to a string, again and again (FormatSpec)
  extraction         \* one call of extractTextFromPdf followed page by page (ExtractSpec)

vars == <<transcript, isProcessing, error, originalFile, currentPageFile, processingMethod,
          processingStatus, pdfJsLoaded, documentTruncated, totalPages, currentPage,
          progressValue, pageTranscripts, ocrOptions, run, ocrCall,
          nav, formatter, extraction>>

Null == "null"

NoFile == [type |-> "none", numPages |-> 0, page |-> 0]

\* setProcessingStatus(msg)
Status(msg) == [msg |-> msg, advisory |-> FALSE]

\* no call of handleFileUpload is pending
IdleRun ==
  [pc |-> "idle", file |-> NoFile, ocrOptions |-> DefaultOcrOptions, pdfJsLoaded |-> FALSE,
   timeout |-> "none", calls |-> <<>>, inflight |-> {}, pagesRead |-> {}, returned |-> <<>>]

\* no call of performClientOCR is followed
NoCall ==
  [pc |-> "none", file |-> NoFile, options |-> DefaultOcrOptions, page |-> 0, images |-> 0,
   index |-> 0, tick |-> 0, emitted |-> <<>>, tesseractOptions |-> {},
   converted |-> <<>>, recOut |-> <<>>, fullText |-> <<>>]

\* no call of handlePageChange was made: `pending` are the calls that have
\* not returned, `last` is the call that returned last, `written` are the
\* pages whose text a call has put into the cache
NoRequest ==
  [page |-> 0, pc |-> "none", originalFile |-> NoFile, pageTranscripts |-> <<>>,
   ocrOptions |-> DefaultOcrOptions, calls |-> <<>>, pagesRead |-> {}, ok |-> TRUE,
   stale |-> FALSE]

\* what is kept of a call that returned; pagesRead are the pages whose text
\* is in the result it stored
Outline(req) == [page |-> req.page, pagesRead |-> req.pagesRead, ok |-> req.ok]

\* no call of extractTextFromPdf is followed: `i` is the loop variable,
\* `visited` the pages handed to pdf.getPage in order, pageOut what each of
\* them gave
NoExtraction ==
  [pc |-> "none", file |-> NoFile, i |-> 0, fullText |-> <<>>, visited |-> <<>>,
   pageOut |-> <<>>]

\* formatTranscript(text) returned `formatted`, in the times-th application
NoFormatting == [text |-> <<>>, formatted |-> <<>>, times |-> 0]

NoNav ==
  [pending |-> <<>>, last |-> Outline(NoRequest), written |-> {}, requests |-> 0,
   uploads |-> 0]

\* the state as one record, for the operators that model the handlers
St ==
  [transcript |-> transcript, isProcessing |-> isProcessing, error |-> error,
   originalFile |-> originalFile, currentPageFile |-> currentPageFile,
   processingMethod |-> processingMethod, processingStatus |-> processingStatus,
   pdfJsLoaded |-> pdfJsLoaded, documentTruncated |-> documentTruncated,
   totalPages |-> totalPages, currentPage |-> currentPage, progressValue |-> progressValue,
   pageTranscripts |-> pageTranscripts, ocrOptions |-> ocrOptions, run |-> run,
   ocrCall |-> ocrCall, nav |-> nav, formatter |-> formatter, extraction |-> extraction]

\* the next state is the record n
Set(n) ==
  /\ transcript' = n.transcript
  /\ isProcessing' = n.isProcessing
  /\ error' = n.error
  /\ originalFile' = n.originalFile
  /\ currentPageFile' = n.currentPageFile
  /\ processingMethod' = n.processingMethod
  /\ processingStatus' = n.processingStatus
  /\ pdfJsLoaded' = n.pdfJsLoaded
  /\ documentTruncated' = n.documentTruncated
  /\ totalPages' = n.totalPages
  /\ currentPage' = n.currentPage
  /\ progressValue' = n.progressValue
  /\ pageTranscripts' = n.pageTranscripts
  /\ ocrOptions' = n.ocrOptions
  /\ run' = n.run
  /\ ocrCall' = n.ocrCall
  /\ nav' = n.nav
  /\ formatter' = n.formatter
  /\ extraction' = n.extraction

\* the values of the useState hooks at the first render
InitialState ==
  [transcript |-> <<>>, isProcessing |-> FALSE, error |-> Null, originalFile |-> NoFile,
   currentPageFile |-> NoFile, processingMethod |-> Null, processingStatus |-> Status(""),
   pdfJsLoaded |-> FALSE, documentTruncated |-> FALSE, totalPages |-> 1, currentPage |-> 1,
   progressValue |-> 0, pageTranscripts |-> <<>>, ocrOptions |-> DefaultOcrOptions,
   run |-> IdleRun, ocrCall |-> NoCall, nav |-> NoNav, formatter |-> NoFormatting,
   extraction |-> NoExtraction]

\* the state is the record n
Is(n) ==
  /\ transcript = n.transcript
  /\ isProcessing = n.isProcessing
  /\ error = n.error
  /\ originalFile = n.originalFile
  /\ currentPageFile = n.currentPageFile
  /\ processingMethod = n.processingMethod
  /\ processingStatus = n.processingStatus
  /\ pdfJsLoaded = n.pdfJsLoaded
  /\ documentTruncated = n.documentTruncated
  /\ totalPages = n.totalPages
  /\ currentPage = n.currentPage
  /\ progressValue = n.progressValue
  /\ pageTranscripts = n.pageTranscripts
  /\ ocrOptions = n.ocrOptions
  /\ run = n.run
  /\ ocrCall = n.ocrCall
  /\ nav = n.nav
  /\ formatter = n.formatter
  /\ extraction = n.extraction

Init == Is(InitialState)

(***************************************************************************)
(* app/page.tsx: handleFileUpload                                          *)
(***************************************************************************)

\* the handler starts the call `site` of function `fn` on `arg` and awaits it
Invoke(s, site, fn, arg) ==
  [s EXCEPT !.run.pc = site,
            !.run.calls = Append(@, [site |-> site, fn |-> fn, arg |-> arg]),
            !.run.inflight = @ \cup {site}]

\* the log of what the awaited calls returned: the call at `site` returned r
\* (r.ok) or threw
Returned(log, site, r) ==
  log @@ (site :> [ok |-> r.ok, text |-> r.text,
                   options |-> IF "options" \in DOMAIN r THEN r.options ELSE DefaultOcrOptions,
                   recognized |-> IF "recognized" \in DOMAIN r THEN r.recognized ELSE Trim(r.text)])

\* the awaited call returned or threw: the handler resumes
Resume(s) == [s EXCEPT !.run.inflight = @ \ {s.run.pc}]

\* handleOcrProgress(progress)
handleOcrProgress(s, progress) ==
  [s EXCEPT !.processingStatus = Status(progress.message),
            !.progressValue = RoundPercent(progress.num, progress.den)]

\* Finish without setIsProcessing(false)
FinishStillProcessing(s) ==
  [s EXCEPT !.run.timeout = "cleared", !.run.pc = "done"]

\* the handler returns with the timer of the run left as it is
FinishLeavingTimer(s) ==
  [s EXCEPT !.isProcessing = FALSE, !.run.pc = "done"]

\* setIsProcessing(false); clearTimeout(timeout) and the handler returns
Finish(s) ==
  [s EXCEPT !.isProcessing = FALSE, !.run.timeout = "cleared", !.run.pc = "done"]

\* lines 329-333: the server action is called
ToServer(s) ==
  Invoke([s EXCEPT !.processingStatus = Status("Processing document on server..."),
                   !.progressValue = 70],
         "server", "processDocument", s.run.file)

\* lines 200-235 for a file that is not a PDF, then lines 309-315;
\* lines 200-225 for a PDF
handleFileUpload(s, file) ==
  LET s1 == [s EXCEPT !.isProcessing = TRUE,
                      !.error = Null,
                      !.originalFile = file,
                      !.currentPageFile = file,
                      !.currentPage = 1,
                      !.pageTranscripts = <<>>,
                      !.processingStatus = Status("Preparing document..."),
                      !.progressValue = 0,
                      !.run = [IdleRun EXCEPT !.file = file,
                                              !.ocrOptions = s.ocrOptions,
                                              !.pdfJsLoaded = s.pdfJsLoaded,
                                              !.timeout = "armed"]]
  IN  IF file.type = PdfType
      THEN Invoke(s1, "getPdfInfo", "getPdfInfo", file)
      ELSE Invoke([s1 EXCEPT !.totalPages = 1,
                             !.documentTruncated = FALSE,
                             !.processingStatus = Status("Processing image..."),
                             !.progressValue = 10],
                  "imageOcr", "performClientOCR", file)

\* the message of the setError call when PDF.js is not loaded
PdfLibraryNotLoaded ==
  "PDF processing library is not loaded yet. Please try again in a moment."

\* AfterGetPdfInfo without the test of pdfJsLoaded and window.pdfjsLib
AfterGetPdfInfoUnchecked(s, pdfInfo) ==
  LET s0 == Resume(s)
      s1 == IF pdfInfo.ok
            THEN [s0 EXCEPT !.totalPages = pdfInfo.numPages,
                            !.documentTruncated = pdfInfo.numPages > PageCap]
            ELSE [s0 EXCEPT !.totalPages = 1]
  IN  Invoke([s1 EXCEPT !.processingStatus = Status("Extracting text from PDF..."),
                        !.progressValue = 10],
             "extract", "extractTextFromPdf", s.run.file)

\* lines 225-251: getPdfInfo returned pdfInfo (pdfInfo.ok) or threw
AfterGetPdfInfo(s, pdfInfo) ==
  LET s0 == Resume(s)
      s1 == IF pdfInfo.ok
            THEN [s0 EXCEPT !.totalPages = pdfInfo.numPages,
                            !.documentTruncated = pdfInfo.numPages > PageCap]
            ELSE [s0 EXCEPT !.totalPages = 1]
  IN  IF ~s.run.pdfJsLoaded \/ ~s.pdfJsLoaded
      THEN Finish([s1 EXCEPT !.error = PdfLibraryNotLoaded])
      ELSE Invoke([s1 EXCEPT !.processingStatus = Status("Extracting text from PDF..."),
                             !.progressValue = 10],
                  "extract", "extractTextFromPdf", s.run.file)

\* lines 251-280 and 304-308: extractTextFromPdf returned r
AfterExtract(s, r) ==
  LET s0 == [Resume(s) EXCEPT !.run.pagesRead = @ \cup r.pages,
                              !.run.returned = Returned(@, s.run.pc, r)]
  IN  IF ~r.ok
      THEN ToServer([s0 EXCEPT !.processingStatus =
                       Status("Client-side processing failed, trying server...")])
      ELSE LET s1 == [s0 EXCEPT !.progressValue = 50] IN
           IF r.text # <<>> /\ Len(Trim(r.text)) > MinExtractedLen
           THEN Invoke([s1 EXCEPT !.transcript = formatTranscript(r.text),
                                  !.processingMethod = "extracted",
                                  !.pageTranscripts = (1 :> r.text)],
                       "display", "convertPdfPageToImage", s.run.file)
           ELSE Invoke([s1 EXCEPT !.processingStatus =
                          Status("No embedded text found. Running OCR on PDF...")],
                       "raster", "convertPdfPageToImage", s.run.file)

\* lines 265-270: the page image for display arrived, or the conversion threw
AfterDisplay(s, o) ==
  LET s0 == [Resume(s) EXCEPT !.run.returned = Returned(@, s.run.pc, [ok |-> o = "ok", text |-> <<>>])] IN
  IF o = "ok"
  THEN Finish([s0 EXCEPT !.currentPageFile = PageImage(1)])
  ELSE ToServer([s0 EXCEPT !.processingStatus =
                   Status("Client-side processing failed, trying server...")])

\* AfterRaster with the recognition not awaited: the server action is called
\* while the recognition of page 1 is still running
AfterRasterRacing(s, o) ==
  LET s0 == [Resume(s) EXCEPT !.run.returned = Returned(@, s.run.pc, [ok |-> o = "ok", text |-> <<>>])] IN
  IF o = "ok"
  THEN ToServer(Invoke([s0 EXCEPT !.currentPageFile = PageImage(1),
                                  !.run.pagesRead = @ \cup {1}],
                       "pageOcr", "performClientOCR", PageImage(1)))
  ELSE ToServer([s0 EXCEPT !.processingStatus =
                   Status("Client OCR failed, trying server processing...")])

\* lines 280-283 and 299-303: page 1 was rasterized, or the conversion threw
AfterRaster(s, o) ==
  LET s0 == [Resume(s) EXCEPT !.run.returned = Returned(@, s.run.pc, [ok |-> o = "ok", text |-> <<>>])] IN
  IF o = "ok"
  THEN Invoke([s0 EXCEPT !.currentPageFile = PageImage(1),
                         !.run.pagesRead = @ \cup {1}],
              "pageOcr", "performClientOCR", PageImage(1))
  ELSE ToServer([s0 EXCEPT !.processingStatus =
                   Status("Client OCR failed, trying server processing...")])

\* PageOcrCall with the initial options instead of the caller's
PageOcrCallDefaults(s, rec) == performClientOCR(PageImage(1), DefaultOcrOptions, <<>>, <<rec>>)

\* line 283: performClientOCR(pageImage, ocrOptions, handleOcrProgress), of
\* which the engine does `rec` with the image
PageOcrCall(s, rec) == performClientOCR(PageImage(1), s.run.ocrOptions, <<>>, <<rec>>)

\* lines 315 and 349: performClientOCR(file, ocrOptions, handleOcrProgress)
FileOcrCall(s, convOut, recOut) == performClientOCR(s.run.file, s.run.ocrOptions, convOut, recOut)

\* lines 283-303: performClientOCR(pageImage, ocrOptions, handleOcrProgress)
\* returned r
AfterPageOcr(s, r) ==
  LET s0 == [handleOcrProgress(Resume(s), r.last) EXCEPT !.run.returned = Returned(@, s.run.pc, r)] IN
  IF r.ok /\ r.text # <<>> /\ Len(Trim(r.text)) > 0
  THEN Finish([s0 EXCEPT !.transcript = formatTranscript(r.text),
                         !.processingMethod = "ocr",
                         !.pageTranscripts = (1 :> r.text)])
  ELSE ToServer([s0 EXCEPT !.processingStatus =
                   Status("Client OCR failed, trying server processing...")])

\* lines 315-327: performClientOCR(file, ocrOptions, handleOcrProgress)
\* returned r
AfterImageOcr(s, r) ==
  LET s0 == [handleOcrProgress(Resume(s), r.last) EXCEPT !.run.returned = Returned(@, s.run.pc, r)] IN
  IF r.ok /\ r.text # <<>> /\ Len(Trim(r.text)) > 0
  THEN Finish([s0 EXCEPT !.transcript = formatTranscript(r.text),
                         !.processingMethod = "ocr"])
  ELSE IF r.ok THEN ToServer(s0)
  ELSE ToServer([s0 EXCEPT !.processingStatus =
                   Status("Client OCR failed, trying server processing...")])

\* the message of the setError call for a file that is neither an image nor
\* a PDF
FailedToExtract ==
  "Failed to extract text from this document. It may be encrypted, scanned, or contain no text."

\* IsImageOrPdf without the test of the media type
IsAnyFile(file) == TRUE

\* `file.type.startsWith("image/") || file.type === "application/pdf"`
IsImageOrPdf(file) == file.type \in {"image/png", PdfType}

\* AfterServer with every reply of the server taken as a result, its text
\* empty or not
AfterServerAcceptsEmpty(s, r) ==
  LET s0 == [Resume(s) EXCEPT !.run.returned = Returned(@, s.run.pc, r)]
      s1 == IF r.ok THEN [s0 EXCEPT !.progressValue = 90] ELSE s0
  IN  IF r.ok
      THEN Finish([s1 EXCEPT !.transcript = formatTranscript(r.text),
                             !.processingMethod = r.method])
      ELSE IF IsImageOrPdf(s.run.file)
      THEN Invoke([s1 EXCEPT !.processingStatus =
                     Status("Trying client-side OCR as fallback...")],
                  "lastOcr", "performClientOCR", s.run.file)
      ELSE Finish([s1 EXCEPT !.error = FailedToExtract])

\* lines 333-349 and 363-369: processDocument(file) returned r
AfterServer(s, r) ==
  LET s0 == [Resume(s) EXCEPT !.run.returned = Returned(@, s.run.pc, r)]
      s1 == IF r.ok THEN [s0 EXCEPT !.progressValue = 90] ELSE s0
  IN  IF r.ok /\ r.text # <<>> /\ Len(Trim(r.text)) > 0
      THEN Finish([s1 EXCEPT !.transcript = formatTranscript(r.text),
                             !.processingMethod = r.method])
      ELSE IF IsImageOrPdf(s.run.file)
      THEN Invoke([s1 EXCEPT !.processingStatus =
                     Status("Trying client-side OCR as fallback...")],
                  "lastOcr", "performClientOCR", s.run.file)
      ELSE Finish([s1 EXCEPT !.error = FailedToExtract])

\* the message of the setError call of the last catch block
AllMethodsFailed ==
  "All processing methods failed. This document may not contain extractable text or the text may be in an unsupported format."

\* AfterLastOcr with the recognition tried again when it gave nothing
AfterLastOcrRetry(s, r) ==
  LET s0 == [handleOcrProgress(Resume(s), r.last)
               EXCEPT !.run.pagesRead = @ \cup r.pages,
                      !.run.returned = Returned(@, s.run.pc, r)]
  IN  IF r.ok /\ r.text # <<>> /\ Len(Trim(r.text)) > 0
      THEN Finish([s0 EXCEPT !.transcript = formatTranscript(r.text),
                             !.processingMethod = "ocr",
                             !.error = Null])
      ELSE Invoke(s0, "lastOcr", "performClientOCR", s.run.file)

\* lines 349-369: performClientOCR(file, ocrOptions, handleOcrProgress)
\* returned r
AfterLastOcr(s, r) ==
  LET s0 == [handleOcrProgress(Resume(s), r.last)
               EXCEPT !.run.pagesRead = @ \cup r.pages,
                      !.run.returned = Returned(@, s.run.pc, r)]
  IN  IF r.ok /\ r.text # <<>> /\ Len(Trim(r.text)) > 0
      THEN Finish([s0 EXCEPT !.transcript = formatTranscript(r.text),
                             !.processingMethod = "ocr",
                             !.error = Null])
      ELSE Finish([s0 EXCEPT !.error = AllMethodsFailed])

\* TimeoutCallback that also gives up the pending run
TimeoutCallbackCancels(s) ==
  [s EXCEPT !.processingStatus.advisory = TRUE, !.run.timeout = "fired",
            !.isProcessing = FALSE, !.run.pc = "done"]

\* the callback of setTimeout(..., 15000): the advisory text is appended to
\* the status message
TimeoutCallback(s) ==
  [s EXCEPT !.processingStatus.advisory = TRUE, !.run.timeout = "fired"]

(***************************************************************************)
(* app/page.tsx: what renderContent offers                                 *)
(***************************************************************************)

\* `!transcript && !isProcessing`: the upload control and the OCR settings
UploadOffered(s) == s.transcript = <<>> /\ ~s.isProcessing

\* the split view with the "Upload Another Document" button
ViewerShown(s) == s.transcript # <<>> /\ ~s.isProcessing

\* onClick of "Upload Another Document"
UploadAnotherDocument(s) ==
  [s EXCEPT !.transcript = <<>>,
            !.processingMethod = Null,
            !.originalFile = NoFile,
            !.currentPageFile = NoFile,
            !.run = IdleRun]

\* the switches of the settings dialog and the Quick Mode button that
\* performClientOCR reads (enhanceContrast and language are read nowhere)
OptionSwitches == {"optimizeForHandwriting", "quickMode"}

\* setOcrOptions({ ...ocrOptions, [field]: !ocrOptions[field] })
ToggleOcrOption(s, field) == [s EXCEPT !.ocrOptions[field] = ~@]

(***************************************************************************)
(* Actions                                                                 *)
(***************************************************************************)

\* the user selects a file in the upload control
Upload ==
  /\ UploadOffered(St)
  /\ \E file \in Files : \E n \in {handleFileUpload(St, file)} : Set(n)

GetPdfInfoReturns ==
  /\ run.pc = "getPdfInfo"
  /\ \E o \in CallOutcomes : \E n \in {AfterGetPdfInfo(St, getPdfInfo(run.file, o))} : Set(n)

ExtractReturns ==
  /\ run.pc = "extract"
  /\ \E r \in {extractTextFromPdf(run.file, pdfJsLoaded, load, pageOut) :
                 load \in CallOutcomes, pageOut \in [1..run.file.numPages -> TextLayerOutcomes]} :
       \E n \in {AfterExtract(St, r)} : Set(n)

DisplayReturns ==
  /\ run.pc = "display"
  /\ \E o \in CallOutcomes : \E n \in {AfterDisplay(St, o)} : Set(n)

RasterReturns ==
  /\ run.pc = "raster"
  /\ \E o \in CallOutcomes : \E n \in {AfterRaster(St, o)} : Set(n)

PageOcrReturns ==
  /\ run.pc = "pageOcr"
  /\ \E r \in {PageOcrCall(St, rec) : rec \in RecognizeOutcomes} :
       \E n \in {AfterPageOcr(St, r)} : Set(n)

ImageOcrReturns ==
  /\ run.pc = "imageOcr"
  /\ \E r \in {FileOcrCall(St, <<>>, <<rec>>) : rec \in RecognizeOutcomes} :
       \E n \in {AfterImageOcr(St, r)} : Set(n)

ServerReturns ==
  /\ run.pc = "server"
  /\ \E r \in {processDocument(run.file, call, rec) :
                 call \in CallOutcomes, rec \in RecognizeOutcomes} :
       \E n \in {AfterServer(St, r)} : Set(n)

LastOcrReturns ==
  /\ run.pc = "lastOcr"
  /\ \E r \in UNION {{FileOcrCall(St, convOut, recOut) :
                        recOut \in RecognitionOutcomes(run.file, convOut)} :
                      convOut \in ConversionOutcomes(run.file)} :
       \E n \in {AfterLastOcr(St, r)} : Set(n)

TimeoutFires ==
  /\ run.timeout = "armed"
  /\ Set(TimeoutCallback(St))

UploadAnother ==
  /\ ViewerShown(St)
  /\ Set(UploadAnotherDocument(St))

ToggleOption ==
  /\ UploadOffered(St)
  /\ \E field \in OptionSwitches : Set(ToggleOcrOption(St, field))

\* script.onload of the PDF.js main script, then setPdfJsLoaded(true)
PdfJsLoads ==
  /\ ~pdfJsLoaded
  /\ Set([St EXCEPT !.pdfJsLoaded = TRUE])

Next ==
  \/ Upload
  \/ GetPdfInfoReturns
  \/ ExtractReturns
  \/ DisplayReturns
  \/ RasterReturns
  \/ PageOcrReturns
  \/ ImageOcrReturns
  \/ ServerReturns
  \/ LastOcrReturns
  \/ TimeoutFires
  \/ UploadAnother
  \/ ToggleOption
  \/ PdfJsLoads

Spec == Init /\ [][Next]_vars

(***************************************************************************)
(* Properties of one upload run                                            *)
(***************************************************************************)

\* the run of handleFileUpload has returned
RunEnded == run.pc = "done"

\* the awaited call at `site` has returned or thrown in this run
HasReturned(site) == site \in DOMAIN run.returned

\* the functions invoked so far in this run
InvokedFns == {run.calls[i].fn : i \in DOMAIN run.calls}

\* the sites invoked so far in this run
InvokedSites == {run.calls[i].site : i \in DOMAIN run.calls}

\* extractTextFromPdf returned text the handler accepts
TextLayerSufficient ==
  /\ HasReturned("extract")
  /\ run.returned["extract"].ok
  /\ Len(Trim(run.returned["extract"].text)) > MinExtractedLen

\* extractTextFromPdf returned text the handler rejects
TextLayerInsufficient ==
  /\ HasReturned("extract")
  /\ run.returned["extract"].ok
  /\ Len(Trim(run.returned["extract"].text)) <= MinExtractedLen

\* C1: when a run ends, the transcript is non-empty if and only if the run
\* ended in success (no error is set).
C1_TranscriptIffSuccess ==
  RunEnded => ((transcript # <<>>) <=> (error = Null))

\* C2: in a run of a PDF whose text layer gave more than 10 trimmed
\* characters, neither performClientOCR nor processDocument is invoked.
C2_SufficientTextShortCircuits ==
  TextLayerSufficient => InvokedFns \cap {"performClientOCR", "processDocument"} = {}

\* C3: no strategy of a run fetches a page beyond the first three.
C3_OnlyFirstPagesRead ==
  run.pagesRead \subseteq 1..PageCap

\* C4: after a run the truncated flag is true exactly when the uploaded file
\* of that run is a PDF of more than three pages.
C4_TruncatedFromThisFile ==
  RunEnded => (documentTruncated <=> (run.file.type = PdfType /\ run.file.numPages > PageCap))

\* every call of the run that could produce text came back without any, and
\* the last-resort recognition was among them
AllStrategiesYieldNothing ==
  /\ RunEnded
  /\ IsImageOrPdf(run.file)
  /\ HasReturned("lastOcr")
  /\ \A site \in DOMAIN run.returned : run.returned[site].recognized = <<>>

\* C5: when every strategy yields nothing for a PDF or an image, the run
\* ends with the "All processing methods failed" error and no transcript.
C5_ExhaustionIsFailure ==
  AllStrategiesYieldNothing => (error = AllMethodsFailed /\ transcript = <<>>)

(***************************************************************************)
(* A run continued to its end under a script of outcomes                   *)
(***************************************************************************)

\* what a strategy can do: produce text, return no text, or throw
StrategyOutcomes == {"text", "empty", "throw"}

\* the strategies of the chain, by the place of their call
StrategySites == {"extract", "pageOcr", "imageOcr", "server", "lastOcr"}

\* every page of the file converts and is legible
AllConverted(file) == [i \in 1..Min(file.numPages, PageCap) |-> "ok"]

\* the result of extractTextFromPdf(file) under the outcome o
ExtractOutcome(file, o) ==
  IF o = "throw" THEN extractTextFromPdf(file, TRUE, "throw", <<>>)
  ELSE extractTextFromPdf(file, TRUE, "ok",
                          [i \in 1..file.numPages |-> IF o = "text" THEN "items" ELSE "none"])

\* the result of performClientOCR(file, options) under the outcome o; the
\* empty outcome is a call that returns ""
OcrOutcome(file, options, o) ==
  LET convOut == IF file.type = PdfType THEN AllConverted(file) ELSE <<>>
      images == IF file.type = PdfType THEN Len(convOut) ELSE 1
      r == performClientOCR(file, options, convOut, [i \in 1..images |-> "text"])
  IN  IF o = "text" THEN r
      ELSE [r EXCEPT !.ok = (o = "empty"), !.text = <<>>, !.recognized = <<>>]

\* the result of processDocument(file) under the outcome o
ServerOutcome(file, o) ==
  IF o = "throw" THEN processDocument(file, "throw", "text")
  ELSE IF o = "empty" THEN [ok |-> TRUE, text |-> <<>>, method |-> "extracted"]
  ELSE [ok |-> TRUE, text |-> ServerText, method |-> "ocr"]

\* the handler resumes from the call it awaits, which did o
StepWith(s, o) ==
  CASE s.run.pc = "getPdfInfo" ->
         AfterGetPdfInfo(s, getPdfInfo(s.run.file, IF o = "throw" THEN "throw" ELSE "ok"))
    [] s.run.pc = "extract" -> AfterExtract(s, ExtractOutcome(s.run.file, o))
    [] s.run.pc = "display" -> AfterDisplay(s, IF o = "throw" THEN "throw" ELSE "ok")
    [] s.run.pc = "raster" -> AfterRaster(s, IF o = "throw" THEN "throw" ELSE "ok")
    [] s.run.pc = "pageOcr" -> AfterPageOcr(s, OcrOutcome(PageImage(1), s.run.ocrOptions, o))
    [] s.run.pc = "imageOcr" -> AfterImageOcr(s, OcrOutcome(s.run.file, s.run.ocrOptions, o))
    [] s.run.pc = "server" -> AfterServer(s, ServerOutcome(s.run.file, o))
    [] s.run.pc = "lastOcr" -> AfterLastOcr(s, OcrOutcome(s.run.file, s.run.ocrOptions, o))

\* the state in which the run ends when the call at each site does what the
\* script says
RECURSIVE RunToEnd(_, _)
RunToEnd(s, script) ==
  IF s.run.pc = "done" THEN s ELSE RunToEnd(StepWith(s, script[s.run.pc]), script)

\* the scripts for the calls a run can make after its first strategy
Scripts == [{"display", "raster", "pageOcr", "server", "lastOcr"} -> StrategyOutcomes]

\* the calls a run made, in order, and the result it leaves on the screen
Outcome(s) ==
  [calls |-> s.run.calls, transcript |-> s.transcript, processingMethod |-> s.processingMethod,
   error |-> s.error, isProcessing |-> s.isProcessing, currentPageFile |-> s.currentPageFile,
   pageTranscripts |-> s.pageTranscripts]

\* C6: for each strategy awaited, the run in which it throws makes the same
\* later calls in the same order and ends in the same state as the run in
\* which it returns empty text, all other outcomes being equal.
C6_ThrowLikeEmpty ==
  run.pc \in StrategySites =>
    \A script \in Scripts :
      Outcome(RunToEnd(StepWith(St, "throw"), script))
        = Outcome(RunToEnd(StepWith(St, "empty"), script))

\* the place of a strategy in the chain
StrategyRank(site) ==
  CASE site = "extract" -> 1
    [] site \in {"pageOcr", "imageOcr"} -> 2
    [] site = "server" -> 3
    [] site = "lastOcr" -> 4

\* the positions in the call log at which a strategy was invoked
StrategyCalls == {i \in DOMAIN run.calls : run.calls[i].site \in StrategySites}

\* C7: the strategies of a run are invoked in the order extraction, page-1
\* or image recognition, server, last-resort recognition; a call is made only
\* when every earlier call has returned or thrown, so that at most one call
\* of the run is in flight.
C7_StrictlySequential ==
  /\ Cardinality(run.inflight) <= 1
  /\ \A i \in DOMAIN run.calls : i < Len(run.calls) => run.calls[i].site \notin run.inflight
  /\ \A i, j \in StrategyCalls :
       i < j => StrategyRank(run.calls[i].site) < StrategyRank(run.calls[j].site)

\* a PDF run that went through all four strategies, the last one in flight
C7_Witness ==
  /\ run.pc = "lastOcr"
  /\ run.inflight = {"lastOcr"}
  /\ {"extract", "pageOcr", "server"} \subseteq InvokedSites

\* the positions in the call log at which fn was invoked
CallsOf(fn) == {i \in DOMAIN run.calls : run.calls[i].fn = fn}

\* the positions at which the uploaded file itself was handed to
\* performClientOCR
OriginalRecognitions == {i \in CallsOf("performClientOCR") : run.calls[i].arg = run.file}

\* C8 as stated: extraction, recognition of the original file and server
\* processing are each invoked at most once in a run.
C8_EachStageOnce ==
  /\ Cardinality(CallsOf("extractTextFromPdf")) <= 1
  /\ Cardinality(CallsOf("processDocument")) <= 1
  /\ Cardinality(OriginalRecognitions) <= 1

\* C8 amended: extraction and server processing are each invoked at most
\* once; the original file is recognized at most once before the server call
\* and at most once after it, as the last resort.
C8_OnceBeforeAndOnceAfterServer ==
  /\ Cardinality(CallsOf("extractTextFromPdf")) <= 1
  /\ Cardinality(CallsOf("processDocument")) <= 1
  /\ Cardinality({i \in OriginalRecognitions : \A j \in CallsOf("processDocument") : i < j}) <= 1
  /\ Cardinality({i \in OriginalRecognitions : \E j \in CallsOf("processDocument") : j < i}) <= 1
  /\ \A i \in OriginalRecognitions :
       (\E j \in CallsOf("processDocument") : j < i) =>
         /\ HasReturned("server")
         /\ ~(run.returned["server"].ok /\ Trim(run.returned["server"].text) # <<>>)

\* an image was recognized, the server gave nothing, and the image is
\* recognized a second time
C8_Witness ==
  /\ run.file.type = "image/png"
  /\ Cardinality(OriginalRecognitions) = 2

\* C9: a text layer of more than 10 trimmed characters ends the run with
\* method 'extracted' and the formatted text as transcript; a text layer of
\* 10 or fewer is followed by the rasterization of page 1 for recognition.
C9_SufficiencyThreshold ==
  /\ (RunEnded /\ TextLayerSufficient) =>
       /\ processingMethod = "extracted"
       /\ transcript = formatTranscript(run.returned["extract"].text)
  /\ (TextLayerInsufficient /\ Len(run.calls) >= 3) => run.calls[3].site = "raster"

\* page-1 recognition returned text that is not blank
PageOcrSucceeded ==
  /\ HasReturned("pageOcr")
  /\ run.returned["pageOcr"].ok
  /\ Trim(run.returned["pageOcr"].text) # <<>>

\* C10: after an insufficient text layer page 1 is rasterized and the raster
\* is recognized with the options of the caller; when the recognized text is
\* not blank the run ends in success with method 'ocr', the formatted text as
\* transcript, and no call of the server.
C10_PageOneRecognition ==
  /\ (TextLayerInsufficient /\ Len(run.calls) >= 3) =>
       /\ run.calls[3].fn = "convertPdfPageToImage"
       /\ run.calls[3].arg = run.file
       /\ run.calls[3].site = "raster"
  /\ (HasReturned("raster") /\ run.returned["raster"].ok) =>
       /\ run.calls[4].fn = "performClientOCR"
       /\ run.calls[4].arg = PageImage(1)
       /\ 1 \in run.pagesRead
  /\ isProcessing => run.ocrOptions = ocrOptions
  /\ HasReturned("pageOcr") => run.returned["pageOcr"].options = run.ocrOptions
  /\ PageOcrSucceeded =>
       /\ RunEnded
       /\ error = Null
       /\ processingMethod = "ocr"
       /\ transcript = formatTranscript(run.returned["pageOcr"].text)
       /\ "processDocument" \notin InvokedFns

\* a run that ended by the recognition of page 1, made with options the user
\* had changed
C10_Witness ==
  /\ PageOcrSucceeded
  /\ TextLayerInsufficient
  /\ run.ocrOptions # DefaultOcrOptions
  /\ processingMethod = "ocr"

(***************************************************************************)
(* The server reply and the last resort                                    *)
(***************************************************************************)

\* the replies of processDocument whose text is empty or only white space
EmptyServerReplies ==
  {[ok |-> TRUE, text |-> <<>>, method |-> "extracted"],
   [ok |-> TRUE, text |-> <<" ", "\n">>, method |-> "ocr"]}

\* the scripts for the one call a run can make after the server
LastResortScripts == [{"lastOcr"} -> StrategyOutcomes]

\* C11: a server reply with empty or blank text leads to the same later
\* calls and the same transcript, method and error at the end of the run as
\* the server call throwing, the last-resort recognition doing the same in
\* both runs.
C11_EmptyReplyLikeThrow ==
  run.pc = "server" =>
    \A reply \in EmptyServerReplies, script \in LastResortScripts :
      Outcome(RunToEnd(AfterServer(St, reply), script))
        = Outcome(RunToEnd(AfterServer(St, ServerOutcome(run.file, "throw")), script))

\* a run that ended after the server had replied with no text
C11_Witness ==
  /\ RunEnded
  /\ HasReturned("server")
  /\ run.returned["server"].ok
  /\ Trim(run.returned["server"].text) = <<>>

\* processDocument threw, or replied with empty or blank text
ServerGaveNothing ==
  /\ HasReturned("server")
  /\ ~(run.returned["server"].ok /\ Trim(run.returned["server"].text) # <<>>)

\* the media type of the uploaded file starts with "image/" or is
\* "application/pdf"
LastResortEligible == run.file.type \in {"image/png", "application/pdf"}

\* C12: after the server gave nothing the last-resort recognition is called
\* exactly for an image or a PDF; for any other file the run ends at once
\* with the 'Failed to extract text' message, which is not the message set
\* when the last resort fails as well.
C12_LastResortByMediaType ==
  /\ (ServerGaveNothing /\ LastResortEligible) =>
       /\ "lastOcr" \in InvokedSites
       /\ run.calls[Len(run.calls)] =
            [site |-> "lastOcr", fn |-> "performClientOCR", arg |-> run.file]
  /\ (ServerGaveNothing /\ ~LastResortEligible) =>
       /\ RunEnded
       /\ ~isProcessing
       /\ run.calls[Len(run.calls)].site = "server"
       /\ error = FailedToExtract
  /\ "lastOcr" \in InvokedSites => (ServerGaveNothing /\ LastResortEligible)
  /\ (RunEnded /\ HasReturned("lastOcr") /\ ~run.returned["lastOcr"].ok) =>
       error = AllMethodsFailed
  /\ FailedToExtract # AllMethodsFailed

\* a text file whose run ended when the server gave nothing
C12_Witness ==
  /\ ServerGaveNothing
  /\ run.file.type = "text/plain"
  /\ error = FailedToExtract

\* a PDF was uploaded while pdfJsLoaded was false
PdfUploadedBeforeLibrary ==
  /\ run.pc # "idle"
  /\ run.file.type = PdfType
  /\ ~run.pdfJsLoaded

\* C13: a run of a PDF uploaded while the PDF library was not ready invokes
\* no strategy and ends, once the page count was asked for, with the
\* 'PDF processing library is not loaded yet' error and isProcessing false.
C13_LibraryNotReady ==
  PdfUploadedBeforeLibrary =>
    /\ InvokedFns = {"getPdfInfo"}
    /\ \/ run.pc = "getPdfInfo" /\ isProcessing
       \/ /\ RunEnded
          /\ error = PdfLibraryNotLoaded
          /\ ~isProcessing
          /\ run.timeout = "cleared"

\* such a run has ended, the library having loaded in the meantime
C13_Witness ==
  /\ PdfUploadedBeforeLibrary
  /\ RunEnded
  /\ pdfJsLoaded

(***************************************************************************)
(* The advisory timer                                                      *)
(***************************************************************************)

\* the state without the advisory text and without the state of the timer
WithoutAdvisory(s) ==
  [s EXCEPT !.processingStatus.advisory = FALSE, !.run.timeout = "none"]

\* C14: when the timer fires during a run it only appends the advisory text
\* to the status message, and whatever the pending call then does, the
\* handler goes on to the same call and the same state as from the state in
\* which the timer has not fired.
C14_AdvisoryOnly ==
  (run.timeout = "armed" /\ run.pc \notin {"idle", "done"}) =>
    LET fired == TimeoutCallback(St) IN
    /\ WithoutAdvisory(fired) = WithoutAdvisory(St)
    /\ fired.processingStatus = [msg |-> processingStatus.msg, advisory |-> TRUE]
    /\ \A o \in StrategyOutcomes :
         WithoutAdvisory(StepWith(fired, o)) = WithoutAdvisory(StepWith(St, o))

\* the timer has fired while a call of the run is pending
C14_Witness ==
  /\ run.timeout = "fired"
  /\ processingStatus.advisory
  /\ isProcessing
  /\ run.pc = "lastOcr"

TickDen == 2

\* the OCRProgress { stage, progress: num / den, message }
ProgressEvent(stage, num, den, message) ==
  [stage |-> stage, num |-> num, den |-> den, message |-> message]

\* onProgress?.(e) with onProgress = handleOcrProgress
Emit(s, e) == [handleOcrProgress(s, e) EXCEPT !.ocrCall.emitted = Append(@, e)]

\* lines 14-35 up to the loop of convertPdfToImages; `load` is the outcome of
\* loading the document
StartCall(s, load) ==
  IF s.ocrCall.file.type = PdfType
  THEN LET s1 == Emit(s, ProgressEvent("pdf-conversion", 0, 1, "Converting PDF to images...")) IN
       IF load = "throw" THEN [s1 EXCEPT !.ocrCall.pc = "thrown"]
       ELSE [s1 EXCEPT !.ocrCall.pc = "convert", !.ocrCall.page = 1]
  ELSE [s EXCEPT !.ocrCall.pc = "prepare", !.ocrCall.images = 1, !.ocrCall.index = 0]

\* ConvertPage reporting the number of the next page once a page is done
ConvertPageOffByOne(s, o) ==
  LET n == Min(s.ocrCall.file.numPages, PageCap)
      i == s.ocrCall.page
      s1 == Emit(s, ProgressEvent("pdf-conversion", i - 1, n, "Converting PDF to images (N%)..."))
      s2 == IF o = "ok"
            THEN Emit([s1 EXCEPT !.ocrCall.images = @ + 1, !.ocrCall.converted = Append(@, i)],
                      ProgressEvent("pdf-conversion", i + 1, n, "Converting PDF to images (N%)..."))
            ELSE s1
  IN  IF i < n THEN [s2 EXCEPT !.ocrCall.page = i + 1]
      ELSE IF s2.ocrCall.images = 0 THEN [s2 EXCEPT !.ocrCall.pc = "thrown"]
      ELSE [Emit(s2, ProgressEvent("pdf-conversion", 1, 1, "PDF conversion complete"))
              EXCEPT !.ocrCall.pc = "prepare", !.ocrCall.index = 0]

\* one round of the loop of convertPdfToImages (part_000 163-183) for the
\* page s.ocrCall.page, and after the last round lines 185-193 and lines
\* 29-32 of performClientOCR
ConvertPage(s, o) ==
  LET n == Min(s.ocrCall.file.numPages, PageCap)
      i == s.ocrCall.page
      s1 == Emit(s, ProgressEvent("pdf-conversion", i - 1, n, "Converting PDF to images (N%)..."))
      s2 == IF o = "ok"
            THEN Emit([s1 EXCEPT !.ocrCall.images = @ + 1, !.ocrCall.converted = Append(@, i)],
                      ProgressEvent("pdf-conversion", i, n, "Converting PDF to images (N%)..."))
            ELSE s1
  IN  IF i < n THEN [s2 EXCEPT !.ocrCall.page = i + 1]
      ELSE IF s2.ocrCall.images = 0 THEN [s2 EXCEPT !.ocrCall.pc = "thrown"]
      ELSE [Emit(s2, ProgressEvent("pdf-conversion", 1, 1, "PDF conversion complete"))
              EXCEPT !.ocrCall.pc = "prepare", !.ocrCall.index = 0]

\* lines 123-131: the note is added to fullText, and the call throws when
\* fullText is blank and returns it trimmed otherwise
EndCall(s) ==
  LET file == s.ocrCall.file
      truncated == file.type = PdfType /\ file.numPages > PageCap
      fullText == IF truncated THEN s.ocrCall.fullText \o TruncationNote(file.numPages)
                  ELSE s.ocrCall.fullText
  IN  IF Trim(fullText) = <<>>
      THEN [s EXCEPT !.ocrCall.pc = "thrown", !.ocrCall.fullText = fullText]
      ELSE [s EXCEPT !.ocrCall.pc = "returned", !.ocrCall.fullText = Trim(fullText)]

\* the loop over filesToProcess goes on to the next file, or ends with the
\* event of line 121 and what follows it
NextFile(s) ==
  IF s.ocrCall.index + 1 < s.ocrCall.images
  THEN [s EXCEPT !.ocrCall.pc = "prepare", !.ocrCall.index = @ + 1, !.ocrCall.tick = 0]
  ELSE EndCall(Emit(s, ProgressEvent("complete", 1, 1, "OCR processing complete")))

\* the file at s.ocrCall.index of filesToProcess
CurrentFile(s) ==
  IF s.ocrCall.file.type = PdfType
  THEN PageImage(s.ocrCall.converted[s.ocrCall.index + 1])
  ELSE s.ocrCall.file

\* lines 110-118: Tesseract.recognize returns result.data.text or throws
\* (rec), and the loop goes on
RecognitionEnds(s, rec) ==
  LET text == RecognizedText(CurrentFile(s), rec)
      s1 == [s EXCEPT !.ocrCall.recOut = Append(@, rec)]
  IN  IF rec # "throw" /\ Trim(text) # <<>>
      THEN NextFile([s1 EXCEPT !.ocrCall.fullText = @ \o text \o <<"\n", "\n">>])
      ELSE NextFile(s1)

\* `options.optimizeForHandwriting && !options.quickMode`
Preprocesses(options) == options.optimizeForHandwriting /\ ~options.quickMode

\* lines 66-107: the settings handed to Tesseract.recognize, as the set of
\* the keys assigned with their values (the logger is left out)
tesseractOptions(options) ==
  {<<"preserve_interword_spaces", 1>>}
  \cup (IF options.optimizeForHandwriting
        THEN IF options.quickMode
             THEN {<<"tessedit_ocr_engine_mode", 3>>, <<"tessedit_pageseg_mode", 1>>}
             ELSE {<<"tessedit_ocr_engine_mode", 2>>, <<"tessedit_pageseg_mode", 6>>,
                   <<"tessjs_create_hocr", 0>>, <<"tessjs_create_tsv", 0>>,
                   <<"load_system_dawg", 0>>, <<"load_freq_dawg", 0>>}
        ELSE {<<"tessedit_ocr_engine_mode", 3>>, <<"tessedit_pageseg_mode", 1>>})

\* lines 45-107 for the file at s.ocrCall.index; o is the outcome of
\* preprocessImageForHandwriting when it is called
PrepareFile(s, o) ==
  LET k == s.ocrCall.index
      m == s.ocrCall.images
      s1 == Emit(s, ProgressEvent("preprocessing", k, m, "Preparing for OCR..."))
  IN  IF Preprocesses(s.ocrCall.options) /\ o = "throw"
      THEN NextFile([s1 EXCEPT !.ocrCall.recOut = Append(@, "throw")])
      ELSE [Emit(s1, ProgressEvent("ocr", k, m, "Running OCR..."))
              EXCEPT !.ocrCall.pc = "recognizing", !.ocrCall.tick = 0,
                     !.ocrCall.tesseractOptions = tesseractOptions(s.ocrCall.options)]

\* tesseractOptions.logger: the engine reports m.progress = a / TickDen
EngineTick(s, a) ==
  LET k == s.ocrCall.index
      m == s.ocrCall.images
  IN  [Emit(s, ProgressEvent("ocr", k * TickDen + a, m * TickDen, "Recognizing text: N%"))
         EXCEPT !.ocrCall.tick = a]

\* the handler state in which a call of performClientOCR starts: the
\* recognition of an uploaded image, of page 1 of a PDF without text layer,
\* or the last resort for a PDF
CallSites == {"imageOcr", "pageOcr", "lastOcr"}

StateAtCall(file, options, site) ==
  LET s0 == handleFileUpload([InitialState EXCEPT !.pdfJsLoaded = TRUE, !.ocrOptions = options],
                             file)
      s1 == IF file.type = PdfType THEN StepWith(s0, "text") ELSE s0
      s2 == IF site = "pageOcr" THEN StepWith(StepWith(s1, "empty"), "text")
            ELSE IF site = "lastOcr" THEN StepWith(StepWith(s1, "throw"), "empty")
            ELSE s1
  IN  [s2 EXCEPT !.ocrCall = [NoCall EXCEPT !.pc = "start",
                                            !.file = s2.run.calls[Len(s2.run.calls)].arg,
                                            !.options = options]]

\* the OCR options the switches can produce
OptionChoices ==
  {[DefaultOcrOptions EXCEPT !.optimizeForHandwriting = h, !.quickMode = q] :
     h \in BOOLEAN, q \in BOOLEAN}

InitOcrCall ==
  \E file \in Files, options \in OptionChoices, site \in CallSites :
    /\ (site = "imageOcr") = (file.type # PdfType)
    /\ Is(StateAtCall(file, options, site))

OcrCallStarts ==
  /\ ocrCall.pc = "start"
  /\ \E load \in CallOutcomes : Set(StartCall(St, load))

OcrConvertsPage ==
  /\ ocrCall.pc = "convert"
  /\ \E o \in CallOutcomes : Set(ConvertPage(St, o))

OcrPreparesFile ==
  /\ ocrCall.pc = "prepare"
  /\ \E o \in CallOutcomes : Set(PrepareFile(St, o))

OcrEngineTicks ==
  /\ ocrCall.pc = "recognizing"
  /\ \E a \in 1..TickDen :
       /\ a > ocrCall.tick
       /\ Set(EngineTick(St, a))

\* Tesseract.recognize returns or throws
OcrRecognitionEnds ==
  /\ ocrCall.pc = "recognizing"
  /\ \E rec \in RecognizeOutcomes : Set(RecognitionEnds(St, rec))

OcrCallNext ==
  \/ OcrCallStarts
  \/ OcrConvertsPage
  \/ OcrPreparesFile
  \/ OcrEngineTicks
  \/ OcrRecognitionEnds

OcrCallSpec == InitOcrCall /\ [][OcrCallNext]_vars

\* C15: from one progress event of a call of performClientOCR to the next,
\* the displayed percentage never decreases.
C15_DisplayedProgressNeverDrops ==
  [][(ocrCall.emitted # <<>> /\ ocrCall'.emitted # ocrCall.emitted)
       => progressValue' >= progressValue]_vars

\* C16: every event of a call has its progress in [0, 1], and of two events
\* of the same stage the later one has the larger or the same progress.
C16_ProgressWithinStage ==
  LET e == ocrCall.emitted IN
  /\ \A j \in DOMAIN e : e[j].den > 0 /\ 0 <= e[j].num /\ e[j].num <= e[j].den
  /\ \A j, k \in DOMAIN e :
       (j < k /\ e[j].stage = e[k].stage) => e[j].num * e[k].den <= e[k].num * e[j].den

\* a call on a PDF of which one page failed to convert has returned, the
\* engine having reported progress on the way
C16_Witness ==
  /\ ocrCall.pc = "returned"
  /\ ocrCall.file.type = PdfType
  /\ ocrCall.images = 2
  /\ \E j \in DOMAIN ocrCall.emitted :
       ocrCall.emitted[j].stage = "ocr" /\ ocrCall.emitted[j].den = 2 * TickDen

(***************************************************************************)
(* app/page.tsx: handlePageChange                                          *)
(***************************************************************************)

\* the number of calls of handlePageChange that can be pending at a time
MaxPending == 2

\* the number of calls of handlePageChange while one document is viewed
MaxRequests == 3

\* the messages of the two catch blocks (the page number is left out)
FailedToChangePage == "Failed to change to page N."

FailedToProcessPage == "Failed to process page N."

RemoveAt(seq, i) == SubSeq(seq, 1, i - 1) \o SubSeq(seq, i + 1, Len(seq))

\* the i-th pending call returns, having become req
Returns(s, i, req) == [s EXCEPT !.nav.pending = RemoveAt(@, i), !.nav.last = Outline(req)]

\* new Map(pageTranscripts).set(page, text) on the map the handler saw when
\* it was created
CacheWith(req, text) == (req.page :> text) @@ req.pageTranscripts

\* lines 140-148 and 190-193: the viewer asks for `page`
handlePageChange(s, page) ==
  LET s1 == [s EXCEPT !.currentPage = page]
      req == [NoRequest EXCEPT !.page = page,
                               !.pc = "display",
                               !.originalFile = s.originalFile,
                               !.pageTranscripts = s.pageTranscripts,
                               !.ocrOptions = s.ocrOptions,
                               !.calls = <<"convertPdfPageToImage">>]
  IN  IF s.originalFile.type = PdfType
      THEN [s1 EXCEPT !.nav.pending = Append(@, req), !.nav.requests = @ + 1]
      ELSE [s1 EXCEPT !.currentPageFile = s.originalFile, !.nav.requests = @ + 1]

\* lines 148-157 and 194-197: the raster of the page arrived, or the
\* conversion threw
AfterPageDisplay(s, i, o) ==
  LET req == s.nav.pending[i] IN
  IF o = "throw"
  THEN Returns([s EXCEPT !.error = FailedToChangePage], i, [req EXCEPT !.ok = FALSE])
  ELSE LET s1 == [s EXCEPT !.currentPageFile = PageImage(req.page)] IN
       IF req.page \in DOMAIN req.pageTranscripts
       THEN Returns([s1 EXCEPT !.transcript = req.pageTranscripts[req.page]], i, req)
       ELSE [s1 EXCEPT !.processingStatus = Status("Extracting text from page N..."),
                       !.isProcessing = TRUE,
                       !.nav.pending[i] = [req EXCEPT !.pc = "extract",
                                                      !.calls = Append(@, "extractTextFromPdf")]]

\* lines 161-173 and 183-188: extractTextFromPdf(originalFile, page)
\* returned r
AfterPageExtract(s, i, r) ==
  LET req == s.nav.pending[i] IN
  IF ~r.ok
  THEN Returns([s EXCEPT !.error = FailedToProcessPage, !.isProcessing = FALSE],
               i, [req EXCEPT !.ok = FALSE])
  ELSE IF r.text # <<>> /\ Len(Trim(r.text)) > MinExtractedLen
  THEN Returns([s EXCEPT !.pageTranscripts = CacheWith(req, r.text),
                         !.transcript = r.text,
                         !.processingMethod = "extracted",
                         !.isProcessing = FALSE,
                         !.nav.written = @ \cup {req.page}],
               i, [req EXCEPT !.pagesRead = r.pages])
  ELSE [s EXCEPT !.processingStatus = Status("Running OCR on page N..."),
                 !.nav.pending[i] = [req EXCEPT !.pc = "raster",
                                                !.calls = Append(@, "convertPdfPageToImage")]]

\* lines 173-174 and 183-188: the raster for recognition arrived, or the
\* conversion threw
AfterPageRaster(s, i, o) ==
  LET req == s.nav.pending[i] IN
  IF o = "throw"
  THEN Returns([s EXCEPT !.error = FailedToProcessPage, !.isProcessing = FALSE],
               i, [req EXCEPT !.ok = FALSE])
  ELSE [s EXCEPT !.nav.pending[i] = [req EXCEPT !.pc = "recognize",
                                                !.calls = Append(@, "performClientOCR")]]

\* lines 174-188: performClientOCR(pageImage, ocrOptions) returned r
AfterPageRecognize(s, i, r) ==
  LET req == s.nav.pending[i] IN
  IF ~r.ok
  THEN Returns([s EXCEPT !.error = FailedToProcessPage, !.isProcessing = FALSE],
               i, [req EXCEPT !.ok = FALSE])
  ELSE Returns([s EXCEPT !.pageTranscripts = CacheWith(req, r.text),
                         !.transcript = r.text,
                         !.processingMethod = "ocr",
                         !.isProcessing = FALSE,
                         !.nav.written = @ \cup {req.page}],
               i, [req EXCEPT !.pagesRead = {req.page}])

\* the scripts of the upload runs after which pages are viewed: the text
\* layer is sufficient or it is not, and every other call gives text
ViewingScripts ==
  {script \in [{"getPdfInfo", "extract", "display", "raster", "pageOcr", "server", "lastOcr"}
                 -> StrategyOutcomes] :
     \A site \in DOMAIN script : site # "extract" => script[site] = "text"}

\* the viewer shows a PDF whose upload run has ended
InitPages ==
  \E s \in {RunToEnd(handleFileUpload([InitialState EXCEPT !.pdfJsLoaded = TRUE], file), script) :
              file \in {f \in Files : f.type = PdfType}, script \in ViewingScripts} :
    /\ ViewerShown(s)
    /\ Is(s)

\* the previous and next buttons of the DocumentViewer
RequestPage ==
  /\ ViewerShown(St)
  /\ originalFile # NoFile
  /\ Len(nav.pending) < MaxPending
  /\ nav.requests < MaxRequests
  /\ \E page \in {currentPage - 1, currentPage + 1} :
       /\ page >= 1
       /\ page <= totalPages
       /\ Set(handlePageChange(St, page))

PageDisplayReturns ==
  \E i \in DOMAIN nav.pending :
    /\ nav.pending[i].pc = "display"
    /\ \E o \in CallOutcomes : \E n \in {AfterPageDisplay(St, i, o)} : Set(n)

PageExtractReturns ==
  \E i \in DOMAIN nav.pending :
    /\ nav.pending[i].pc = "extract"
    /\ \E o \in StrategyOutcomes :
         \E n \in {AfterPageExtract(St, i, ExtractOutcome(nav.pending[i].originalFile, o))} :
           Set(n)

PageRasterReturns ==
  \E i \in DOMAIN nav.pending :
    /\ nav.pending[i].pc = "raster"
    /\ \E o \in CallOutcomes : \E n \in {AfterPageRaster(St, i, o)} : Set(n)

PageRecognizeReturns ==
  \E i \in DOMAIN nav.pending :
    /\ nav.pending[i].pc = "recognize"
    /\ \E rec \in RecognizeOutcomes :
         \E n \in {AfterPageRecognize(St, i,
                     performClientOCR(PageImage(nav.pending[i].page),
                                      nav.pending[i].ocrOptions, <<>>, <<rec>>))} : Set(n)

PageNext ==
  \/ RequestPage
  \/ PageDisplayReturns
  \/ PageExtractReturns
  \/ PageRasterReturns
  \/ PageRecognizeReturns

PageSpec == InitPages /\ [][PageNext]_vars

\* the i-th pending call of handlePageChange returns in this step
ReturnsNow(i) ==
  /\ i \in DOMAIN nav.pending
  /\ nav'.pending = RemoveAt(nav.pending, i)
  /\ nav'.requests = nav.requests

\* the pending call req asked for a page that was in the cache
CacheHit(req) == req.page \in DOMAIN req.pageTranscripts

\* C17: when the page asked for is already in the page-transcript cache, the
\* call ends with the displayed transcript equal to the cached text, the
\* cache untouched, and neither extractTextFromPdf nor performClientOCR
\* called.
C17_CachedPageShown ==
  [][\A i \in DOMAIN nav.pending :
       (CacheHit(nav.pending[i]) /\ ReturnsNow(i))
         => /\ transcript' = nav.pending[i].pageTranscripts[nav.pending[i].page]
            /\ pageTranscripts' = pageTranscripts
            /\ nav.pending[i].calls = <<"convertPdfPageToImage">>]_vars

\* C18: a call for a page p that is not in the cache, when it succeeds,
\* stores under key p a text read from page p and from no other page, and
\* that text is the displayed transcript.
C18_MissScopedToPage ==
  [][\A i \in DOMAIN nav.pending :
       (~CacheHit(nav.pending[i]) /\ ReturnsNow(i) /\ nav'.last.ok)
         => /\ nav'.last.pagesRead = {nav.pending[i].page}
            /\ nav.pending[i].page \in DOMAIN pageTranscripts'
            /\ pageTranscripts'[nav.pending[i].page] = transcript']_vars

\* C19: once no call of handlePageChange is pending, every page that a call
\* wrote into the page-transcript cache is still a key of the cache: a write
\* for one page does not lose the write for another, however the calls
\* interleave.
C19_NoLostPageWrite ==
  nav.pending = <<>> => nav.written \subseteq DOMAIN pageTranscripts

\* C27: when calls of handlePageChange overlap and all have returned with
\* success, the displayed transcript is the one the call for the current
\* page (the page asked for last) has set, whichever call returned last.
C27_CurrentPageShown ==
  (nav.pending = <<>> /\ nav.requests >= 2 /\ nav.last.ok /\ error = Null)
    => nav.last.page = currentPage

(***************************************************************************)
(* utils/format-transcript.ts applied to every short string                *)
(***************************************************************************)

\* the length of the strings formatted
MaxLen == 4

\* how often the formatter is applied to its own output
MaxApplications == 2

\* one lowercase and one uppercase letter, the three punctuation marks the
\* formatter looks for, and the white space it rewrites
FormatAlphabet == {"a", "B", ".", ",", ":", " ", "\t", "\n"}

Strings(n) == UNION {[1..k -> FormatAlphabet] : k \in 0..n}

\* the length of the strings of lines formatted
MaxLineLen == 6

\* a letter and the white space that makes and pads lines
LineAlphabet == {"a", " ", "\n"}

LineStrings(n) == UNION {[1..k -> LineAlphabet] : k \in 0..n}

InitFormat ==
  \E x \in Strings(MaxLen) \cup LineStrings(MaxLineLen) :
    Is([InitialState EXCEPT !.formatter = [NoFormatting EXCEPT !.formatted = x]])

\* formatTranscript is applied to what it returned before (to the input
\* string the first time)
Format ==
  /\ formatter.times < MaxApplications
  /\ formatter' = [text |-> formatter.formatted,
                   formatted |-> formatTranscript(formatter.formatted),
                   times |-> formatter.times + 1]
  /\ UNCHANGED <<transcript, isProcessing, error, originalFile, currentPageFile,
                 processingMethod, processingStatus, pdfJsLoaded, documentTruncated,
                 totalPages, currentPage, progressValue, pageTranscripts, ocrOptions, run,
                 ocrCall, nav, extraction>>

FormatNext == Format

FormatSpec == InitFormat /\ [][FormatNext]_vars

\* C20: formatTranscript(formatTranscript(x)) = formatTranscript(x): the
\* second application returns the string it was given.
C20_FormatIdempotent ==
  formatter.times = 2 => formatter.formatted = formatter.text

\* s holds three consecutive characters c
HasRunOfThree(s, c) ==
  \E i \in 1..(Len(s) - 2) : s[i] = c /\ s[i + 1] = c /\ s[i + 2] = c

\* C21: what formatTranscript returns holds no run of three or more spaces
\* and no run of three or more newlines.
C21_NoLongWhiteSpaceRuns ==
  formatter.times >= 1
    => ~HasRunOfThree(formatter.formatted, " ") /\ ~HasRunOfThree(formatter.formatted, "\n")

\* the engine mode of a settings record, by the comments of lines 87, 93
\* and 104
EngineOf(settings) ==
  IF <<"tessedit_ocr_engine_mode", 2>> \in settings THEN "legacy" ELSE "default"

\* the page segmentation mode of a settings record: 1 is automatic
\* segmentation with orientation and script detection (line 105), 6 a single
\* uniform block (line 94)
SegmentationOf(settings) ==
  IF <<"tessedit_pageseg_mode", 6>> \in settings THEN "single uniform block"
  ELSE IF <<"tessedit_pageseg_mode", 1>> \in settings THEN "automatic with orientation detection"
  ELSE "automatic"

\* the dictionaries are loaded unless load_system_dawg is set to 0
DictionaryOf(settings) == <<"load_system_dawg", 0>> \notin settings

\* the decision table of the recognition adapter
DecisionTable(optimizeForHandwriting, quickMode) ==
  IF ~optimizeForHandwriting
  THEN [engine |-> "default", segmentation |-> "automatic with orientation detection",
        dictionary |-> TRUE]
  ELSE IF quickMode
  THEN [engine |-> "default", segmentation |-> "automatic", dictionary |-> TRUE]
  ELSE [engine |-> "legacy", segmentation |-> "single uniform block", dictionary |-> FALSE]

\* C22: the settings performClientOCR hands to the engine are those of the
\* decision table for (optimizeForHandwriting, quickMode).
C22_EngineDecisionTable ==
  ocrCall.pc = "recognizing"
    => [engine |-> EngineOf(ocrCall.tesseractOptions),
        segmentation |-> SegmentationOf(ocrCall.tesseractOptions),
        dictionary |-> DictionaryOf(ocrCall.tesseractOptions)]
       = DecisionTable(ocrCall.options.optimizeForHandwriting, ocrCall.options.quickMode)

\* the engine read every file of the call and found no text on any
RecognizedNothing ==
  /\ ocrCall.recOut # <<>>
  /\ \A i \in DOMAIN ocrCall.recOut : ocrCall.recOut[i] = "blank"

\* C23: a call of performClientOCR in which every recognition completes and
\* finds no text returns the empty string; it does not throw.
C23_EmptyIsNotAnError ==
  (ocrCall.pc \in {"returned", "thrown"} /\ RecognizedNothing)
    => ocrCall.pc = "returned" /\ ocrCall.fullText = <<>>

(***************************************************************************)
(* utils/pdf-processor: one call of extractTextFromPdf, page by page        *)
(***************************************************************************)

\* lines 28-44: the library and the document are loaded, or that throws
LoadDocument(s, load) ==
  IF load = "throw" THEN [s EXCEPT !.extraction.pc = "thrown"]
  ELSE [s EXCEPT !.extraction.pc = "page", !.extraction.i = 1]

\* VisitPage with the exception of a page ending the call
VisitPageAborting(s, o) ==
  LET i == s.extraction.i
      pageText == JoinTrimmed(TextItems(i, o))
      s1 == [s EXCEPT !.extraction.visited = Append(@, i),
                      !.extraction.pageOut = Append(@, o),
                      !.extraction.fullText =
                         IF o = "items" THEN @ \o pageText \o <<"\n", "\n">> ELSE @]
  IN  IF o = "throw" THEN [s1 EXCEPT !.extraction.pc = "thrown"]
      ELSE IF i < s.extraction.file.numPages
      THEN [s1 EXCEPT !.extraction.i = i + 1]
      ELSE [s1 EXCEPT !.extraction.pc = "returned", !.extraction.i = i + 1,
                      !.extraction.fullText = Trim(@)]

\* one round of the loop of lines 48-66 for page s.extraction.i, and line 68
\* after the last round; o is what getPage and getTextContent give
VisitPage(s, o) ==
  LET i == s.extraction.i
      pageText == JoinTrimmed(TextItems(i, o))
      s1 == [s EXCEPT !.extraction.visited = Append(@, i),
                      !.extraction.pageOut = Append(@, o),
                      !.extraction.fullText =
                         IF o = "items" THEN @ \o pageText \o <<"\n", "\n">> ELSE @]
  IN  IF i < s.extraction.file.numPages
      THEN [s1 EXCEPT !.extraction.i = i + 1]
      ELSE [s1 EXCEPT !.extraction.pc = "returned", !.extraction.i = i + 1,
                      !.extraction.fullText = Trim(@)]

InitExtract ==
  \E file \in {f \in Files : f.type = PdfType} :
    Is([InitialState EXCEPT !.pdfJsLoaded = TRUE,
                            !.extraction = [NoExtraction EXCEPT !.pc = "load", !.file = file]])

ExtractLoads ==
  /\ extraction.pc = "load"
  /\ \E load \in CallOutcomes : Set(LoadDocument(St, load))

ExtractVisitsPage ==
  /\ extraction.pc = "page"
  /\ \E o \in TextLayerOutcomes : Set(VisitPage(St, o))

ExtractNext ==
  \/ ExtractLoads
  \/ ExtractVisitsPage

ExtractSpec == InitExtract /\ [][ExtractNext]_vars

\* the texts of the pages from p on that gave text items, each followed by
\* the texts after it with a blank line between
RECURSIVE TextsFrom(_, _)
TextsFrom(pageOut, p) ==
  IF p > Len(pageOut) THEN <<>>
  ELSE LET rest == TextsFrom(pageOut, p + 1) IN
       IF pageOut[p] # "items" THEN rest
       ELSE IF rest = <<>> THEN JoinTrimmed(TextItems(p, "items"))
       ELSE JoinTrimmed(TextItems(p, "items")) \o <<"\n", "\n">> \o rest

\* C24: extractTextFromPdf visits the pages 1, 2, ... in order; a page
\* without text items or whose extraction throws adds nothing and does not
\* end the call, so every page is visited; the call returns the texts of the
\* other pages in page order with a blank line between them, the empty
\* string when there is none.
C24_ExtractionSkipsAndContinues ==
  /\ \A j \in DOMAIN extraction.visited : extraction.visited[j] = j
  /\ extraction.pc = "thrown" => extraction.visited = <<>>
  /\ extraction.pc = "returned"
       => /\ Len(extraction.visited) = extraction.file.numPages
          /\ extraction.fullText = TextsFrom(extraction.pageOut, 1)
          /\ extraction.fullText
               = extractTextFromPdf(extraction.file, TRUE, "ok", extraction.pageOut).text
          /\ (\A j \in DOMAIN extraction.pageOut : extraction.pageOut[j] # "items")
               => extraction.fullText = <<>>

\* a call returned text although an earlier page threw and another gave no
\* items
C24_Witness ==
  /\ extraction.pc = "returned"
  /\ extraction.fullText # <<>>
  /\ \E i, j, k \in DOMAIN extraction.pageOut :
       /\ i < k
       /\ extraction.pageOut[i] = "throw"
       /\ extraction.pageOut[j] = "none"
       /\ extraction.pageOut[k] = "items"

(***************************************************************************)
(* app/page.tsx: page changes, "Upload Another Document" and a new upload  *)
(* in one session                                                          *)
(***************************************************************************)

\* the number of uploads that follow the first document of a session
MaxUploads == 1

\* the page count of the documents of a session
SessionPages == 2

\* the number of page changes asked for in a session
MaxSessionRequests == 1

SessionFiles == {f \in Files : f.numPages <= SessionPages}

\* a call of handleFileUpload has not returned
RunPending(s) == s.run.pc \notin {"idle", "done"}

\* the document the pending calls of handlePageChange were made for is no
\* longer the loaded one
Outdate(s) ==
  [s EXCEPT !.nav.pending = [i \in DOMAIN @ |-> [@[i] EXCEPT !.stale = TRUE]]]

\* onClick of "Upload Another Document" (lines 536-542); the record of a
\* call of handleFileUpload that has not returned is kept
SessionUploadAnother ==
  /\ ViewerShown(St)
  /\ \E n \in {UploadAnotherDocument(St)} :
       Set(Outdate(IF RunPending(St) THEN [n EXCEPT !.run = run] ELSE n))

\* the user selects a file in the upload control; one call of
\* handleFileUpload is followed at a time
SessionUpload ==
  /\ UploadOffered(St)
  /\ ~RunPending(St)
  /\ nav.uploads < MaxUploads
  /\ \E file \in SessionFiles :
       \E n \in {handleFileUpload(St, file)} :
         Set(Outdate([n EXCEPT !.nav.uploads = @ + 1]))

\* the previous and next buttons of the DocumentViewer
SessionRequestPage ==
  /\ nav.requests < MaxSessionRequests
  /\ RequestPage

SessionNext ==
  \/ SessionRequestPage
  \/ PageDisplayReturns
  \/ PageExtractReturns
  \/ PageRasterReturns
  \/ PageRecognizeReturns
  \/ SessionUploadAnother
  \/ SessionUpload
  \/ GetPdfInfoReturns
  \/ ExtractReturns
  \/ DisplayReturns
  \/ RasterReturns
  \/ PageOcrReturns
  \/ ImageOcrReturns
  \/ ServerReturns
  \/ LastOcrReturns
  \/ TimeoutFires

\* the viewer shows a PDF of the session whose upload run has ended
InitSession ==
  /\ InitPages
  /\ originalFile \in SessionFiles

SessionSpec == InitSession /\ [][SessionNext]_vars

\* C25: while a call of handleFileUpload has not returned, isProcessing is
\* true (so neither the upload control nor the viewer is shown), whatever
\* pending page changes and "Upload Another Document" do.
C25_ProcessingWhileRunPending ==
  RunPending(St) => isProcessing

\* C28: a call of handlePageChange that was pending when "Upload Another
\* Document" was pressed or a new upload started (its document is no longer
\* the loaded one) neither puts a text into the page-transcript cache nor
\* sets the displayed transcript when it returns.
C28_NoTextOfPreviousDocument ==
  [][\A i \in DOMAIN nav.pending :
       (nav.pending[i].stale /\ ReturnsNow(i))
         => /\ pageTranscripts' = pageTranscripts
            /\ transcript' = transcript]_vars

\* the pages whose text occurs in `text` (the text of page q carries the
\* digit of q, and no other digit)
PagesIn(text) == {q \in 1..MaxPages : \E k \in DOMAIN text : text[k] = Digit(q)}

\* C29: every entry of the page-transcript cache under page p holds the text
\* of page p and of no other page, the page-1 entry an upload run of a PDF
\* writes included.
C29_EntryHoldsItsPage ==
  \A p \in DOMAIN pageTranscripts : PagesIn(pageTranscripts[p]) = {p}

(***************************************************************************)
(* Termination of an upload run                                            *)
(***************************************************************************)

\* the call the run awaits returns or throws (the run awaits one call at a
\* time)
AwaitedCallReturns ==
  \/ GetPdfInfoReturns
  \/ ExtractReturns
  \/ DisplayReturns
  \/ RasterReturns
  \/ PageOcrReturns
  \/ ImageOcrReturns
  \/ ServerReturns
  \/ LastOcrReturns

\* every awaited call of the run returns or throws in the end
CallsReturn == WF_vars(AwaitedCallReturns)

\* the documents of the runs followed to their end
LivePages == 2

LiveFiles == {f \in Files : f.numPages <= LivePages}

LiveUpload ==
  /\ UploadOffered(St)
  /\ \E file \in LiveFiles : \E n \in {handleFileUpload(St, file)} : Set(n)

LiveNext ==
  \/ LiveUpload
  \/ AwaitedCallReturns
  \/ TimeoutFires
  \/ UploadAnother
  \/ ToggleOption
  \/ PdfJsLoads

LiveSpec == Init /\ [][LiveNext]_vars /\ CallsReturn

\* the run has returned with isProcessing false and a transcript or an
\* error on the screen
RunSettled ==
  /\ run.pc = "done"
  /\ ~isProcessing
  /\ transcript # <<>> \/ error # Null

\* C26: when every awaited call returns or throws in the end, a run of
\* handleFileUpload that has started ends, with isProcessing false and with
\* a transcript or an error set.
C26_RunTerminates == RunPending(St) ~> RunSettled

\* a run went through the whole chain and ended with the error of the last
\* resort
C26_Witness ==
  /\ RunSettled
  /\ error = AllMethodsFailed
  /\ HasReturned("lastOcr")

====
